---- MODULE Spec2Model ----
(***************************************************************************)
(* A model of speech/cloud-client/transcribe_async.py: the command-line    *)
(* run (transcode, upload, submit, wait, completion callbacks) and the     *)
(* pure helpers it uses (_safe_filename, the timestamp formatting of       *)
(* save_results).  Text is a sequence of one-character strings.            *)
(***************************************************************************)
EXTENDS Integers, Sequences, FiniteSets, TLC

\* Longest filename the pure-function specification enumerates.
MaxLen == 4
\* Longest recognition result (number of segments) a run receives.
MaxSegments == 2

----------------------------------------------------------------------------
(* Text helpers *)

Digits == <<"0", "1", "2", "3", "4", "5", "6", "7", "8", "9">>

RECURSIVE Dec(_)
\* str(n) for n >= 0
Dec(n) ==
    IF n < 10 THEN <<Digits[n + 1]>> ELSE Dec(n \div 10) \o <<Digits[(n % 10) + 1]>>

RECURSIVE ZeroPad(_, _)
\* '{:0>wd}': left-padded with zeros to at least w characters
ZeroPad(s, w) ==
    IF Len(s) >= w THEN s ELSE ZeroPad(<<"0">> \o s, w)

\* str.rfind(c), 1-based; 0 when c does not occur
RFind(p, c) ==
    LET hits == {i \in 1..Len(p) : p[i] = c}
    IN  IF hits = {} THEN 0 ELSE CHOOSE i \in hits : \A j \in hits : j <= i

\* str.startswith(prefix)
StartsWith(s, prefix) ==
    /\ Len(s) >= Len(prefix)
    /\ SubSeq(s, 1, Len(prefix)) = prefix

\* os.path.basename: what follows the last '/'
basename(p) ==
    SubSeq(p, RFind(p, "/") + 1, Len(p))

\* os.path.splitext: <<root, ext>>; ext starts at the last '.' of the last
\* path component unless only dots precede it there; ext keeps its dot.
splitext(p) ==
    LET sep == RFind(p, "/")
        dot == RFind(p, ".")
    IN  IF dot > sep /\ \E i \in (sep + 1)..(dot - 1) : p[i] # "."
        THEN <<SubSeq(p, 1, dot - 1), SubSeq(p, dot, Len(p))>>
        ELSE <<p, <<>>>>

\* datetime.strftime("%Y-%m-%d-%H%M%S")
strftime(c) ==
    ZeroPad(Dec(c.year), 4) \o <<"-">> \o ZeroPad(Dec(c.month), 2) \o <<"-">>
        \o ZeroPad(Dec(c.day), 2) \o <<"-">> \o ZeroPad(Dec(c.hour), 2)
        \o ZeroPad(Dec(c.minute), 2) \o ZeroPad(Dec(c.second), 2)

\* _safe_filename(filename) with utcnow() = now
_safe_filename(filename, now) ==
    LET date == strftime(now)
        parts == splitext(basename(filename))
    IN  parts[1] \o <<"-">> \o date \o <<".">> \o parts[2]

\* the output path transcode_file hands to ffmpeg and returns
transcode_output(filename) ==
    splitext(filename)[1]
        \o <<"-", "t", "r", "a", "n", "s", "c", "o", "d", "e", ".", "f", "l", "a", "c">>

UPLOAD_BUCKET_NAME ==
    <<"b", "j", "o", "e", "r", "i", "s", "-", "t", "e", "m", "p", "-", "a", "u", "d", "i", "o">>

GsScheme == <<"g", "s", ":", "/", "/">>

\* "gs://{}/{}".format(bucket_name, blob_name)
blob_uri(bucket_name, name) ==
    GsScheme \o bucket_name \o <<"/">> \o name

\* args.out when --out is not given
default_out(audio_file) ==
    splitext(audio_file)[1] \o <<".", "c", "s", "v">>

----------------------------------------------------------------------------
(* Timestamp formatting of save_results *)

RECURSIVE Log2(_)
Log2(n) ==
    IF n < 2 THEN 0 ELSE 1 + Log2(n \div 2)

RECURSIVE Pow2(_)
Pow2(k) ==
    IF k = 0 THEN 1 ELSE 2 * Pow2(k - 1)

\* The whole part of the double  seconds + 1e-9*nanos.  A double holds 53
\* significant bits, so next to seconds (binary exponent k) its values are
\* 2^(k-52) apart and the sum is rounded to the nearest of them: it reaches
\* seconds + 1 exactly when the missing fraction (10^9 - nanos)/10^9 is at
\* most half that spacing, which needs seconds >= 2^24.
float_seconds(seconds, nanos) ==
    LET k == Log2(seconds)
    IN  IF /\ seconds >= Pow2(24)
           /\ (1000000000 - nanos) <= 1000000000 \div Pow2(53 - k)
        THEN seconds + 1
        ELSE seconds

\* lines 116-124.  The divisions and subtractions that follow the sum are
\* exact on doubles of this size, so they act on the whole part alone.
timestamp_str(alternative) ==
    IF Len(alternative.words) > 0
    THEN LET start_time == alternative.words[1].start_time
             timestamp == float_seconds(start_time.seconds, start_time.nanos)
             timestamp_hrs == timestamp \div 3600
             timestamp_mins == (timestamp - timestamp_hrs * 3600) \div 60
             timestamp_secs == timestamp - timestamp_mins * 60 - timestamp_hrs * 3600
         IN  ZeroPad(Dec(timestamp_hrs), 2) \o <<":">> \o ZeroPad(Dec(timestamp_mins), 2)
                 \o <<":">> \o ZeroPad(Dec(timestamp_secs), 2)
    ELSE <<>>

\* '{:.2f}'.format(confidence), the confidence given in hundredths
confidence_str(hundredths) ==
    Dec(hundredths \div 100) \o <<".">> \o ZeroPad(Dec(hundredths % 100), 2)

\* the row save_results writes and echoes for one result (lines 115-130)
csv_row(result) ==
    LET alternative == result.alternatives[1]
    IN  [timestamp |-> timestamp_str(alternative),
         confidence |-> confidence_str(alternative.confidence),
         transcript |-> alternative.transcript]

----------------------------------------------------------------------------
(* State *)

VARIABLES
    audio_file,      \* args.audio_file
    output,          \* args.out after line 143
    now,             \* what datetime.utcnow() returns
    pc,              \* where the main thread is
    ffmpeg,          \* how the encoder ended: "none" until it ran
    transcoded,      \* whether the file transcode_file names exists on disk
    blob_name,       \* the uploaded object's name; <<>> before line 59
    bucket,          \* URIs of the objects remote storage holds
    opState,         \* the remote job: NONE, PENDING, RUNNING, COMPLETED, FAILED
    results,         \* the job's response once COMPLETED
    result_set,      \* the operation future has its result or exception
    polling,         \* the future's daemon polling thread was started
    done_callbacks,  \* the callbacks registered on the future, in order
    invoker,         \* the thread that set the result and invokes the callbacks
    cbIdx,           \* next callback of done_callbacks to invoke
    rowIdx,          \* save_results: 0 = file not open, k = about to write row k
    csv,             \* the output file
    stdout,          \* the rows echoed by save_results
    called,          \* the operations entered so far
    raised,          \* the places an exception was raised
    finished         \* the callbacks that returned or raised

vars ==
    <<audio_file, output, now, pc, ffmpeg, transcoded, blob_name, bucket, opState,
      results, result_set, polling, done_callbacks, invoker, cbIdx, rowIdx, csv,
      stdout, called, raised, finished>>

Terminal == {"COMPLETED", "FAILED"}

Exited == pc \in {"exit_ok", "exit_err"}

\* the run was started on a remote URI (line 145)
IsRemote == StartsWith(audio_file, GsScheme)

\* the URI of the object transcribe_file uploads
UploadedUri == blob_uri(UPLOAD_BUCKET_NAME, blob_name)

----------------------------------------------------------------------------
(* Inputs *)

RemoteArg == GsScheme \o <<"b", "/", "v", ".", "f">>

CliArgs == {RemoteArg, <<"a", ".", "r">>, <<"d", "/", "a">>}

OutArg == <<"o", ".", "c", "s", "v">>

Clock(y, mo, d, h, mi, s) ==
    [year |-> y, month |-> mo, day |-> d, hour |-> h, minute |-> mi, second |-> s]

Clocks == {Clock(2018, 3, 7, 9, 5, 0), Clock(2018, 12, 31, 23, 59, 59)}

Word(s, n) == [start_time |-> [seconds |-> s, nanos |-> n]]

Alternative(ws, c, t) == [words |-> ws, confidence |-> c, transcript |-> t]

Segment(alts) == [alternatives |-> alts]

\* what a run's job may answer: up to MaxSegments segments
RunSegments ==
    {Segment(<<Alternative(<<Word(3725, 250000000), Word(3726, 0)>>, 87, "hello")>>),
     Segment(<<Alternative(<<>>, 100, "a,b"),
               Alternative(<<Word(7, 0)>>, 50, "ab")>>)}

RunResults == UNION {[1..k -> RunSegments] : k \in 0..MaxSegments}

AbsentFile == [exists |-> FALSE, rows |-> <<>>]

\* an output file left by an earlier run
StaleFile ==
    [exists |-> TRUE,
     rows |-> <<[timestamp |-> <<>>, confidence |-> confidence_str(1), transcript |-> "old"]>>]

----------------------------------------------------------------------------
(* The command-line run *)

Init ==
    /\ audio_file \in CliArgs
    /\ output \in {<<>>, OutArg}
    /\ now \in {Clock(2018, 3, 7, 9, 5, 0)}
    /\ pc = "main"
    /\ ffmpeg = "none"
    /\ transcoded \in BOOLEAN
    /\ blob_name = <<>>
    /\ bucket = {RemoteArg}
    /\ opState = "NONE"
    /\ results = <<>>
    /\ result_set = FALSE
    /\ polling = FALSE
    /\ done_callbacks = <<>>
    /\ invoker = "none"
    /\ cbIdx = 0
    /\ rowIdx = 0
    /\ csv \in {AbsentFile, StaleFile}
    /\ stdout = <<>>
    /\ called = {}
    /\ raised = {}
    /\ finished = {}

\* Main with the test of line 145 inverted
Main_inverted ==
    /\ pc = "main"
    /\ output' = IF output = <<>> THEN default_out(audio_file) ELSE output
    /\ pc' = IF StartsWith(audio_file, GsScheme) THEN "transcode_file" ELSE "transcribe_gcs"
    /\ UNCHANGED <<audio_file, now, ffmpeg, transcoded, blob_name, bucket, opState,
                   results, result_set, polling, done_callbacks, invoker, cbIdx,
                   rowIdx, csv, stdout, called, raised, finished>>

\* lines 142-148: the default output path, then the dispatch on the input
Main ==
    /\ pc = "main"
    /\ output' = IF output = <<>> THEN default_out(audio_file) ELSE output
    /\ pc' = IF StartsWith(audio_file, GsScheme) THEN "transcribe_gcs" ELSE "transcode_file"
    /\ UNCHANGED <<audio_file, now, ffmpeg, transcoded, blob_name, bucket, opState,
                   results, result_set, polling, done_callbacks, invoker, cbIdx,
                   rowIdx, csv, stdout, called, raised, finished>>

\* lines 55, 74-79: subprocess.run without check: a missing executable
\* raises, a non-zero exit does not.  A successful encoder writes its output;
\* a failing one leaves what was there, or a partial file.
transcode_file ==
    /\ pc = "transcode_file"
    /\ called' = called \cup {"transcode_file"}
    /\ \/ /\ ffmpeg' = "ok"
          /\ transcoded' = TRUE
          /\ pc' = "upload"
          /\ raised' = raised
       \/ /\ ffmpeg' = "nonzero"
          /\ transcoded' \in {transcoded, TRUE}
          /\ pc' = "upload"
          /\ raised' = raised
       \/ /\ ffmpeg' = "notfound"
          /\ transcoded' = transcoded
          /\ pc' = "exit_err"
          /\ raised' = raised \cup {"ffmpeg"}
    /\ UNCHANGED <<audio_file, output, now, blob_name, bucket, opState, results,
                   result_set, polling, done_callbacks, invoker, cbIdx, rowIdx, csv,
                   stdout, finished>>

\* lines 57-64: name the object, open the transcoded file, upload it
upload ==
    /\ pc = "upload"
    /\ blob_name' = _safe_filename(transcode_output(audio_file), now)
    /\ \/ /\ ~transcoded
          /\ raised' = raised \cup {"open_audio"}
          /\ pc' = "exit_err"
          /\ UNCHANGED <<bucket, called>>
       \/ /\ transcoded
          /\ called' = called \cup {"upload_from_file"}
          /\ \/ /\ bucket' = bucket \cup {blob_uri(UPLOAD_BUCKET_NAME, blob_name')}
                /\ pc' = "transcribe_gcs"
                /\ raised' = raised
             \/ /\ bucket' = bucket
                /\ pc' = "exit_err"
                /\ raised' = raised \cup {"upload"}
    /\ UNCHANGED <<audio_file, output, now, ffmpeg, transcoded, opState, results,
                   result_set, polling, done_callbacks, invoker, cbIdx, rowIdx, csv,
                   stdout, finished>>

\* lines 82-105: submit the job; when the service accepts it, register the
\* save callback, which starts the future's polling thread
transcribe_gcs ==
    /\ pc = "transcribe_gcs"
    /\ called' = called \cup {"long_running_recognize"}
    /\ \/ /\ raised' = raised \cup {"submit"}
          /\ pc' = "exit_err"
          /\ UNCHANGED <<opState, done_callbacks, polling>>
       \/ /\ opState' = "PENDING"
          /\ done_callbacks' = Append(done_callbacks, "save")
          /\ polling' = TRUE
          /\ pc' = IF blob_name = <<>> THEN "result" ELSE "add_done_callback"
          /\ raised' = raised
    /\ UNCHANGED <<audio_file, output, now, ffmpeg, transcoded, blob_name, bucket,
                   results, result_set, invoker, cbIdx, rowIdx, csv, stdout, finished>>

\* lines 67-69, the callback transcribe_file defines: blob.delete(), which
\* removes the uploaded object or raises
callback ==
    /\ called' = called \cup {"delete"}
    /\ finished' = finished \cup {"delete"}
    /\ \/ /\ bucket' = bucket \ {UploadedUri}
          /\ raised' = raised
       \/ /\ bucket' = bucket
          /\ raised' = raised \cup {"delete"}

\* register_delete calling the callback itself instead of registering it
register_delete_eager ==
    /\ pc = "add_done_callback"
    /\ pc' = "result"
    /\ callback
    /\ UNCHANGED <<audio_file, output, now, ffmpeg, transcoded, blob_name, opState,
                   results, result_set, polling, done_callbacks, invoker, cbIdx,
                   rowIdx, csv, stdout>>

\* lines 66-71 after transcribe_gcs returned: register the deletion callback.
\* A future that already has its result invokes the callback at once.
register_delete ==
    /\ pc = "add_done_callback"
    /\ pc' = "result"
    /\ \/ /\ ~result_set
          /\ done_callbacks' = Append(done_callbacks, "delete")
          /\ UNCHANGED <<bucket, called, raised, finished>>
       \/ /\ result_set
          /\ callback
          /\ UNCHANGED done_callbacks
    /\ UNCHANGED <<audio_file, output, now, ffmpeg, transcoded, blob_name, opState,
                   results, result_set, polling, invoker, cbIdx, rowIdx, csv, stdout>>

\* the recognition service starts the job
service_run ==
    /\ opState = "PENDING"
    /\ opState' = "RUNNING"
    /\ UNCHANGED <<audio_file, output, now, pc, ffmpeg, transcoded, blob_name, bucket,
                   results, result_set, polling, done_callbacks, invoker, cbIdx,
                   rowIdx, csv, stdout, called, raised, finished>>

\* the job reaches a terminal state: a response, or an error
service_finish ==
    /\ opState = "RUNNING"
    /\ \/ /\ opState' = "COMPLETED"
          /\ results' \in RunResults
       \/ /\ opState' = "FAILED"
          /\ results' = results
    /\ UNCHANGED <<audio_file, output, now, pc, ffmpeg, transcoded, blob_name, bucket,
                   result_set, polling, done_callbacks, invoker, cbIdx, rowIdx, csv,
                   stdout, called, raised, finished>>

\* line 149, operation.result(): the main thread's poll finds the job
\* terminal first, sets the future's result and invokes the callbacks itself
result_detect ==
    /\ pc = "result"
    /\ ~result_set
    /\ opState \in Terminal
    /\ result_set' = TRUE
    /\ invoker' = "main"
    /\ cbIdx' = 1
    /\ pc' = "invoke_callbacks"
    /\ UNCHANGED <<audio_file, output, now, ffmpeg, transcoded, blob_name, bucket,
                   opState, results, polling, done_callbacks, rowIdx, csv, stdout,
                   called, raised, finished>>

\* line 149: the callbacks the main thread invoked are through;
\* operation.result() returns the response or raises the job's error, and
\* the program ends
result_invoked ==
    /\ pc = "invoke_callbacks"
    /\ cbIdx > Len(done_callbacks)
    /\ pc' = IF opState = "COMPLETED" THEN "exit_ok" ELSE "exit_err"
    /\ UNCHANGED <<audio_file, output, now, ffmpeg, transcoded, blob_name, bucket,
                   opState, results, result_set, polling, done_callbacks, invoker,
                   cbIdx, rowIdx, csv, stdout, called, raised, finished>>

\* line 149: the polling thread has set the result already;
\* operation.result() returns or raises at once and the program ends, which
\* ends the daemon polling thread wherever it is
result_return ==
    /\ pc = "result"
    /\ result_set
    /\ pc' = IF opState = "COMPLETED" THEN "exit_ok" ELSE "exit_err"
    /\ UNCHANGED <<audio_file, output, now, ffmpeg, transcoded, blob_name, bucket,
                   opState, results, result_set, polling, done_callbacks, invoker,
                   cbIdx, rowIdx, csv, stdout, called, raised, finished>>

\* the polling thread started at line 104 finds the job terminal first and
\* sets the future's result; it then invokes the callbacks
poll_detect ==
    /\ polling
    /\ ~Exited
    /\ ~result_set
    /\ opState \in Terminal
    /\ result_set' = TRUE
    /\ invoker' = "poller"
    /\ cbIdx' = 1
    /\ UNCHANGED <<audio_file, output, now, pc, ffmpeg, transcoded, blob_name, bucket,
                   opState, results, polling, done_callbacks, rowIdx, csv, stdout,
                   called, raised, finished>>

Threads == {"main", "poller"}

\* thread t is invoking the callbacks and callback cb is next; the daemon
\* polling thread runs only while the program does
Invoking(t, cb) ==
    /\ invoker = t
    /\ t = "poller" => ~Exited
    /\ cbIdx \in 1..Len(done_callbacks)
    /\ done_callbacks[cbIdx] = cb

\* save_callback entering save_results without asking the future for its
\* result, whatever the job's terminal state
save_callback_unchecked(t) ==
    /\ Invoking(t, "save")
    /\ rowIdx = 0
    /\ called' = called \cup {"save_results"}
    /\ \/ /\ raised' = raised \cup {"open_output"}
          /\ finished' = finished \cup {"save"}
          /\ cbIdx' = cbIdx + 1
          /\ UNCHANGED <<csv, rowIdx>>
       \/ /\ csv' = [exists |-> TRUE, rows |-> <<>>]
          /\ rowIdx' = 1
          /\ UNCHANGED <<raised, finished, cbIdx>>
    /\ UNCHANGED <<audio_file, output, now, pc, ffmpeg, transcoded, blob_name, bucket,
                   opState, results, result_set, polling, done_callbacks, invoker,
                   stdout>>

\* line 104, the lambda: operation_future.result() raises the job's error;
\* otherwise save_results is entered and opens the output file (line 110),
\* which truncates it and writes the header.  What a callback raises is
\* caught by the future, which goes on to the next callback.
save_callback(t) ==
    /\ Invoking(t, "save")
    /\ rowIdx = 0
    /\ \/ /\ opState = "FAILED"
          /\ raised' = raised \cup {"result"}
          /\ finished' = finished \cup {"save"}
          /\ cbIdx' = cbIdx + 1
          /\ UNCHANGED <<called, csv, rowIdx>>
       \/ /\ opState = "COMPLETED"
          /\ called' = called \cup {"save_results"}
          /\ \/ /\ raised' = raised \cup {"open_output"}
                /\ finished' = finished \cup {"save"}
                /\ cbIdx' = cbIdx + 1
                /\ UNCHANGED <<csv, rowIdx>>
             \/ /\ csv' = [exists |-> TRUE, rows |-> <<>>]
                /\ rowIdx' = 1
                /\ UNCHANGED <<raised, finished, cbIdx>>
    /\ UNCHANGED <<audio_file, output, now, pc, ffmpeg, transcoded, blob_name, bucket,
                   opState, results, result_set, polling, done_callbacks, invoker,
                   stdout>>

\* lines 114-130: one result's row, written and echoed
save_row(t) ==
    /\ Invoking(t, "save")
    /\ rowIdx \in 1..Len(results)
    /\ csv' = [csv EXCEPT !.rows = Append(@, csv_row(results[rowIdx]))]
    /\ stdout' = Append(stdout, csv_row(results[rowIdx]))
    /\ rowIdx' = rowIdx + 1
    /\ UNCHANGED <<audio_file, output, now, pc, ffmpeg, transcoded, blob_name, bucket,
                   opState, results, result_set, polling, done_callbacks, invoker,
                   cbIdx, called, raised, finished>>

\* line 110, the end of the with block: the file is closed, save_results
\* and the callback return
save_close(t) ==
    /\ Invoking(t, "save")
    /\ rowIdx = Len(results) + 1
    /\ rowIdx' = 0
    /\ finished' = finished \cup {"save"}
    /\ cbIdx' = cbIdx + 1
    /\ UNCHANGED <<audio_file, output, now, pc, ffmpeg, transcoded, blob_name, bucket,
                   opState, results, result_set, polling, done_callbacks, invoker,
                   csv, stdout, called, raised>>

\* lines 67-70: the registered deletion callback, invoked by thread t
delete_callback(t) ==
    /\ Invoking(t, "delete")
    /\ callback
    /\ cbIdx' = cbIdx + 1
    /\ UNCHANGED <<audio_file, output, now, pc, ffmpeg, transcoded, blob_name, opState,
                   results, result_set, polling, done_callbacks, invoker, rowIdx, csv,
                   stdout>>

Next ==
    \/ Main
    \/ transcode_file
    \/ upload
    \/ transcribe_gcs
    \/ register_delete
    \/ service_run
    \/ service_finish
    \/ result_detect
    \/ result_invoked
    \/ result_return
    \/ poll_detect
    \/ \E t \in Threads : save_callback(t)
    \/ \E t \in Threads : save_row(t)
    \/ \E t \in Threads : save_close(t)
    \/ \E t \in Threads : delete_callback(t)

Spec == Init /\ [][Next]_vars

----------------------------------------------------------------------------
(* The pure helpers, applied to enumerated inputs *)

Chars == {"a", "b", ".", "/"}

FileNames == UNION {[1..k -> Chars] : k \in 0..MaxLen}

Seconds == {0, 59, 3599, 3600, 3725, 86399, 16777215, 16777216}

Nanos == {0, 250000000, 999999999}

FnAlternatives ==
    {Alternative(<<>>, 0, "t")}
        \cup {Alternative(<<Word(s, n)>>, 87, "t") : s \in Seconds, n \in Nanos}

FnResults ==
    {<<Segment(<<a>>)>> : a \in FnAlternatives}
        \cup {<<Segment(<<a, Alternative(<<Word(1, 0)>>, 10, "u")>>)>> : a \in FnAlternatives}

InitFn ==
    /\ audio_file \in FileNames
    /\ output = OutArg
    /\ now \in Clocks
    /\ pc = "call"
    /\ ffmpeg = "none"
    /\ transcoded = FALSE
    /\ blob_name = <<>>
    /\ bucket = {}
    /\ opState = "COMPLETED"
    /\ results \in FnResults
    /\ result_set = FALSE
    /\ polling = FALSE
    /\ done_callbacks = <<>>
    /\ invoker = "none"
    /\ cbIdx = 0
    /\ rowIdx = 0
    /\ csv = AbsentFile
    /\ stdout = <<>>
    /\ called = {}
    /\ raised = {}
    /\ finished = {}

\* _safe_filename(audio_file), lines 39-47
call_safe_filename ==
    /\ pc = "call"
    /\ "_safe_filename" \notin called
    /\ blob_name' = _safe_filename(audio_file, now)
    /\ called' = called \cup {"_safe_filename"}
    /\ UNCHANGED <<audio_file, output, now, pc, ffmpeg, transcoded, bucket, opState,
                   results, result_set, polling, done_callbacks, invoker, cbIdx,
                   rowIdx, csv, stdout, raised, finished>>

\* save_results(results, output), lines 107-130, from open to close
call_save_results ==
    /\ pc = "call"
    /\ "save_results" \notin called
    /\ csv' = [exists |-> TRUE, rows |-> [i \in 1..Len(results) |-> csv_row(results[i])]]
    /\ stdout' = [i \in 1..Len(results) |-> csv_row(results[i])]
    /\ called' = called \cup {"save_results"}
    /\ UNCHANGED <<audio_file, output, now, pc, ffmpeg, transcoded, blob_name, bucket,
                   opState, results, result_set, polling, done_callbacks, invoker,
                   cbIdx, rowIdx, raised, finished>>

NextFn ==
    \/ call_safe_filename
    \/ call_save_results

SpecFn == InitFn /\ [][NextFn]_vars

----------------------------------------------------------------------------
(* Properties *)

\* transcribe_file's upload went through
Uploaded ==
    /\ "upload_from_file" \in called
    /\ "upload" \notin raised

\* C1: in a local-file run whose job ended FAILED, the uploaded object is
\* deleted when the run has ended (unless blob.delete() itself raised).
C1_FailedRunDeletesUpload ==
    (Exited /\ opState = "FAILED" /\ Uploaded /\ "delete" \notin raised)
        => UploadedUri \notin bucket

\* C2: when the program has ended after the job reached a terminal state,
\* the save callback and, after an upload, the deletion callback have
\* finished, and after a successful run the uploaded object is gone.
C2_ExitAfterChain ==
    (Exited /\ result_set)
        => /\ "save" \in finished
           /\ Uploaded => "delete" \in finished
           /\ (pc = "exit_ok" /\ Uploaded /\ "delete" \notin raised)
                  => UploadedUri \notin bucket

\* C3: blob.delete() has been called, or the uploaded object is gone, only
\* when the job is in a terminal state.
C3_DeleteOnlyAfterTerminal ==
    ("delete" \in called \/ (Uploaded /\ UploadedUri \notin bucket))
        => opState \in Terminal

\* C3 witness: a local-file run in which the deletion callback removed the object
C3_Deleted ==
    /\ ~IsRemote
    /\ Uploaded
    /\ "delete" \in called
    /\ UploadedUri \notin bucket

\* C4: in a run on a gs:// URI only the submission and the result formatter
\* are ever entered (no transcode, no upload, no deletion) and the object
\* the URI names stays in storage.
C4_RemoteRunTouchesNothing ==
    IsRemote
        => /\ called \subseteq {"long_running_recognize", "save_results"}
           /\ blob_name = <<>>
           /\ audio_file \in bucket

\* C4 witness: a gs:// run that ended after save_results wrote its rows
C4_RemoteRunSaved ==
    /\ IsRemote
    /\ pc = "exit_ok"
    /\ "save" \in finished
    /\ called = {"long_running_recognize", "save_results"}
    /\ csv.exists
    /\ Len(csv.rows) = Len(results)
    /\ Len(results) > 0

FnStems == {n \in FileNames : n # <<>> /\ \A i \in 1..Len(n) : n[i] \notin {".", "/"}}

FnDirs == {<<>>} \cup {d \o <<"/">> : d \in {<<>>} \cup FnStems}

\* C5: for a filename dir/name.ext and a clock value, _safe_filename returns
\* name, one hyphen, the timestamp YYYY-MM-DD-HHMMSS, one dot, ext.
C5_SafeFilenameForm ==
    "_safe_filename" \in called
        => \A dir \in FnDirs, name \in FnStems, ext \in FnStems :
               audio_file = dir \o name \o <<".">> \o ext
                   => blob_name = name \o <<"-">> \o strftime(now) \o <<".">> \o ext

\* C6: once the encoder has failed (a non-zero exit, or no executable),
\* nothing is uploaded and no recognition job is submitted.
C6_TranscodeFailureAborts ==
    ffmpeg \in {"nonzero", "notfound"}
        => /\ "upload_from_file" \notin called
           /\ "long_running_recognize" \notin called

\* C7: when a local-file run whose job COMPLETED has ended, a save_results
\* that could not open its output has not kept blob.delete() from being
\* called, and a blob.delete() that raised has not kept save_results from
\* writing every row.
C7_CallbacksIndependent ==
    (Exited /\ opState = "COMPLETED" /\ Uploaded)
        => /\ "open_output" \in raised => "delete" \in called
           /\ ("delete" \in raised /\ "open_output" \notin raised)
                  => /\ "save" \in finished
                     /\ csv.exists
                     /\ Len(csv.rows) = Len(results)

\* C8: when the job is FAILED, save_results is never entered: the output
\* file is as it was before the run and nothing has been echoed.
C8_FailedWritesNothing ==
    opState = "FAILED"
        => /\ "save_results" \notin called
           /\ csv \in {AbsentFile, StaleFile}
           /\ stdout = <<>>
           /\ rowIdx = 0

\* C8 witness: the save callback ran on a FAILED job and raised at result()
C8_SaveRaised ==
    /\ opState = "FAILED"
    /\ "save" \in finished
    /\ "result" \in raised

\* the timestamp field C9 states for a first alternative
TruncatedTimestamp(alternative) ==
    IF alternative.words = <<>>
    THEN <<>>
    ELSE LET s == alternative.words[1].start_time.seconds
         IN  ZeroPad(Dec(s \div 3600), 2) \o <<":">> \o ZeroPad(Dec((s % 3600) \div 60), 2)
                 \o <<":">> \o ZeroPad(Dec(s % 60), 2)

\* C9: every row's timestamp is empty when the segment's first alternative
\* has no words and otherwise HH:MM:SS of the first word's whole seconds,
\* the nanoseconds dropped.
C9_TimestampTruncates ==
    "save_results" \in called
        => \A i \in 1..Len(results) :
               csv.rows[i].timestamp = TruncatedTimestamp(results[i].alternatives[1])

\* C10: when a run that uploaded an object has ended, however it ended, the
\* object is no longer in the bucket (unless blob.delete() itself raised).
C10_NoUploadLeftBehind ==
    (Exited /\ Uploaded /\ "delete" \notin raised)
        => UploadedUri \notin bucket

====
